---------------------------- MODULE Spec2Model ----------------------------
(***************************************************************************)
(* The water-jug search of jugs.py: Jug, JugsState and JugsGraph.          *)
(*                                                                         *)
(* graph_it is a recursive depth-first expansion; its call stack is the    *)
(* variable stack, one frame per active call of its inner _helper, and     *)
(* every candidate it creates (create, dedup check, attach, goal check,    *)
(* raise) is one step.  The tree hanging off self.start is the variable    *)
(* graph: a sequence of JugsState records in attachment order, entry 1     *)
(* being self.start; next_states and parent hold positions in it (0 is     *)
(* None).  Python indexes from 0, the sequences here from 1.               *)
(***************************************************************************)
EXTENDS Integers, Sequences, FiniteSets, TLC

\* ------------------------------------------------------------------ bounds
MaxJugs == 2
MaxCap == 3
MaxGoal == 4

\* The runs of section 8 of the specification: <<capacities, target>>.
Examples ==
  { << <<3, 5>>, 4 >>, << <<3, 5, 8>>, 4 >>, << <<7>>, 7 >>, << <<7>>, 4 >> }

CapLists == UNION { [1..n -> 1..MaxCap] : n \in 0..MaxJugs }

Instances == { <<c, g>> : c \in CapLists, g \in 0..MaxGoal } \cup Examples

\* min_steps = 9999999999 in print_solutions; TLC's integers are 32 bits
\* wide, so the largest of them stands for it.  Like the original it lies
\* above the length of every path the graph can hold.
MinStepsInit == 2147483647

VARIABLES
  jugs,             \* the caller's list of Jug objects (main's jugs)
  goal,             \* JugsGraph.goal
  graph,            \* the JugsState objects reachable from JugsGraph.start
  graphed,          \* JugsGraph.graphed
  stack,            \* active calls of graph_it._helper, innermost last
  cand,             \* the JugsState created last by _helper (or NoState)
  caught,           \* states whose _helper call ended in "except GoalFound"
  solution_number,  \* JugsGraph.solution_number
  solutions,        \* JugsGraph.solutions
  solution,         \* print_solutions' local "solution" (NoSolution is None)
  output,           \* the headline print_solutions printed last
  call              \* the method called last on Jug or JugsState objects

vars == << jugs, goal, graph, graphed, stack, cand, caught,
           solution_number, solutions, solution, output, call >>

START == 1
None == 0

\* ------------------------------------------------------------------- Jug
\* A Jug object is a record of its attributes and of ref, its identity:
\* <<o, i>> for the i-th Jug made for list o (0: the caller's list, n: the
\* jugs of the n-th JugsState of the graph; the objects of a discarded
\* candidate are garbage, their identities are free again).
Jug(capacity, ref) == [capacity |-> capacity, amount |-> 0, ref |-> ref]

\* copy.copy(j): a new object with the attribute values of j
copy(j, ref) == [j EXCEPT !.ref = ref]

\* The list of Jug objects js as it reads after attributes were assigned
\* on the objects written: an assignment shows through every reference
\* to the object.
Store(js, written) ==
  [x \in 1..Len(js) |->
     IF \E y \in 1..Len(written) : written[y].ref = js[x].ref
     THEN written[CHOOSE y \in 1..Len(written) : written[y].ref = js[x].ref]
     ELSE js[x]]

\* the same for the jugs of every state of g
StoreAll(g, written) ==
  [n \in 1..Len(g) |-> [g[n] EXCEPT !.jugs = Store(@, written)]]

\* fill_to_full that leaves the jug as it is
fill_to_full_noop(j) == j

fill_to_full(j) == [j EXCEPT !.amount = j.capacity]

empty(j) == [j EXCEPT !.amount = 0]

\* _fill without the capacity check: the destination takes everything
_fill_uncapped(j, amount) == << [j EXCEPT !.amount = j.amount + amount], 0 >>

\* _fill returns the remainder; the pair is <<the jug afterwards, remainder>>.
_fill(j, amount) ==
  LET a == j.amount + amount
  IN  IF a > j.capacity
      THEN << [j EXCEPT !.amount = a - (a - j.capacity)], a - j.capacity >>
      ELSE << [j EXCEPT !.amount = a], 0 >>

\* transfer that drops the remainder: the source always ends empty
transfer_spill(self, jug) ==
  LET r == _fill(jug, self.amount)
  IN  << [self EXCEPT !.amount = 0], r[1] >>

\* transfer that forgets "self.amount = remainder": the source keeps its water
transfer_keep(self, jug) ==
  LET r == _fill(jug, self.amount)
  IN  << self, r[1] >>

\* self.transfer(jug): <<self afterwards, jug afterwards>>.
transfer(self, jug) ==
  LET r == _fill(jug, self.amount)
  IN  << [self EXCEPT !.amount = r[2]], r[1] >>

\* ------------------------------------------------------------- JugsState
\* JugsState.__init__ keeping the caller's Jug objects: "self.jugs = jugs"
JugsState_shared(js, id) ==
  [jugs |-> js, next_states |-> << >>, parent |-> None, goal_flag |-> FALSE]

\* The id-th JugsState made: "self.jugs = [copy.copy(j) for j in jugs]".
JugsState(js, id) ==
  [jugs |-> [i \in 1..Len(js) |-> copy(js[i], <<id, i>>)],
   next_states |-> << >>, parent |-> None, goal_flag |-> FALSE]

\* call: op is "fill" (fill_to_full), "empty", "transfer" or "is_same";
\* i is the position of the receiving Jug in its list, k that of the
\* argument of transfer; before is the list of Jugs before the call (for
\* is_same: self.jugs), other is state.jugs of is_same, result its result.
NoCall == [op |-> "", i |-> 0, k |-> 0, before |-> << >>, other |-> << >>,
           result |-> FALSE]

NoState == [jugs |-> << >>, next_states |-> << >>, parent |-> None,
            goal_flag |-> FALSE, attached |-> FALSE, from |-> None]

\* self.is_same(state)
is_same(self, state) ==
  \A i \in 1..Len(self.jugs) :
    ~ ( self.jugs[i].capacity = state.jugs[i].capacity
        /\ self.jugs[i].amount # state.jugs[i].amount )

\* has_fill_amount that returns after looking at the first jug
has_fill_amount_first(self, amount) ==
  Len(self.jugs) >= 1 /\ self.jugs[1].amount = amount

\* has_fill_amount with ">=" for "=="
has_fill_amount_atleast(self, amount) ==
  \E i \in 1..Len(self.jugs) : self.jugs[i].amount >= amount

has_fill_amount(self, amount) ==
  \E i \in 1..Len(self.jugs) : self.jugs[i].amount = amount

\* add_state that sets the child's parent to the root instead of self
add_state_rootparent(g, p, st) ==
  LET id == Len(g) + 1
  IN  Append([g EXCEPT ![p].next_states = Append(@, id)],
             [st EXCEPT !.parent = START])

\* add_state that forgets "jugs_state.parent = self"
add_state_noparent(g, p, st) ==
  LET id == Len(g) + 1
  IN  Append([g EXCEPT ![p].next_states = Append(@, id)], st)

\* g[p].add_state(st): st becomes the last entry of g and of p's next_states.
add_state(g, p, st) ==
  LET id == Len(g) + 1
  IN  Append([g EXCEPT ![p].next_states = Append(@, id)],
             [st EXCEPT !.parent = p])

\* ------------------------------------------------------------- JugsGraph
RECURSIVE state_exists_helper(_, _, _)
state_exists_helper(g, state, self_state) ==
  \E x \in 1..Len(g[self_state].next_states) :
    LET s == g[self_state].next_states[x]
    IN  is_same(state, g[s]) \/ state_exists_helper(g, state, s)

\* state_exists that looks at the root and its children only
state_exists_shallow(g, state) ==
  \/ is_same(state, g[START])
  \/ \E x \in 1..Len(g[START].next_states) :
       is_same(state, g[g[START].next_states[x]])

state_exists(g, state) ==
  is_same(state, g[START]) \/ state_exists_helper(g, state, START)


\* ------------------------------------------------- graph_it: the call stack
\* A frame is the position of one _helper call: op is the statement its
\* loops reach next ("fill", "empty", "transfer" of jug i, into jug k) or
\* "children" (the loop over next_states, at its s-th entry).
NextK(n, i, k) ==
  LET ks == { x \in (k + 1)..n : x # i }
  IN  IF ks = {} THEN 0 ELSE CHOOSE x \in ks : \A y \in ks : x <= y

\* _helper starting with the empty candidate of the first jug
Frame_emptyfirst(st, n) ==
  [state |-> st, op |-> IF n >= 1 THEN "empty" ELSE "children",
   i |-> IF n >= 1 THEN 1 ELSE 0, k |-> 0, s |-> 1]

\* entering _helper(current_state): "for i,j in enumerate(current_state.jugs)"
Frame(st, n) ==
  [state |-> st, op |-> IF n >= 1 THEN "fill" ELSE "children",
   i |-> IF n >= 1 THEN 1 ELSE 0, k |-> 0, s |-> 1]

\* after the fill candidate of jug i comes its empty candidate
AfterFill(f) == [f EXCEPT !.op = "empty"]

\* the outer loop over i stopping one jug short
AfterTransfer_short(f, n) ==
  LET k2 == NextK(n, f.i, f.k)
  IN  IF k2 # 0 THEN [f EXCEPT !.op = "transfer", !.k = k2]
      ELSE IF f.i < n - 1 THEN [f EXCEPT !.op = "fill", !.i = f.i + 1, !.k = 0]
      ELSE [f EXCEPT !.op = "children", !.i = 0, !.k = 0]

\* "for k in range(len(current_state.jugs)): if i == k: continue", then the
\* next i of the outer loop, then the loop over the children
AfterTransfer(f, n) ==
  LET k2 == NextK(n, f.i, f.k)
  IN  IF k2 # 0 THEN [f EXCEPT !.op = "transfer", !.k = k2]
      ELSE IF f.i < n THEN [f EXCEPT !.op = "fill", !.i = f.i + 1, !.k = 0]
      ELSE [f EXCEPT !.op = "children", !.i = 0, !.k = 0]

AfterEmpty(f, n) == AfterTransfer([f EXCEPT !.k = 0], n)

Top == stack[Len(stack)]

SetTop(stk, f) == [stk EXCEPT ![Len(stk)] = f]

\* GoalFound caught around the candidate loops only: the call goes on with
\* its loop over next_states
except_GoalFound_inner(stk) ==
  [stk EXCEPT ![Len(stk)] = [@ EXCEPT !.op = "children", !.i = 0, !.k = 0]]

\* "raise GoalFound()" lands in the "except GoalFound: pass" of the _helper
\* call that raised it: that call returns, its callers go on.
except_GoalFound(stk) == SubSeq(stk, 1, Len(stk) - 1)

\* the identity of the JugsState made next
NewId == Len(graph) + 1

\* the three candidates of _helper
fill_state(cur, i) ==
  [JugsState(cur.jugs, NewId) EXCEPT !.jugs[i] = fill_to_full(@)]

empty_state(cur, i) ==
  [JugsState(cur.jugs, NewId) EXCEPT !.jugs[i] = empty(@)]

transfer_state(cur, i, k) ==
  LET st == JugsState(cur.jugs, NewId)
      t == transfer(st.jugs[i], st.jugs[k])
  IN  [st EXCEPT !.jugs[i] = t[1], !.jugs[k] = t[2]]

\* add_state without the state_exists check
Attaches_always(g, st) == TRUE

\* "if not self.state_exists(st): current_state.add_state(st)"
Attaches(g, st) == ~ state_exists(g, st)

\* One candidate st of the call on top of the stack, made by a move on the
\* jugs of a new JugsState: dedup check, attach, goal check, raise.  next is
\* where the call goes on when nothing is raised.
Candidate(made, next) ==
  \E st \in {made} : \E g0 \in {StoreAll(graph, made.jugs)} :
  \E att \in {Attaches(g0, st)} :
  LET cur == Top.state
      found == has_fill_amount(st, goal)
      id == NewId
      g1 == IF att THEN add_state(g0, cur, st) ELSE g0
  IN  /\ graph' = IF att /\ found THEN [g1 EXCEPT ![id].goal_flag = TRUE]
                  ELSE g1
      /\ cand' = [jugs |-> st.jugs, next_states |-> << >>,
                  parent |-> IF att THEN cur ELSE None,
                  goal_flag |-> found, attached |-> att, from |-> cur]
      /\ stack' = IF found THEN except_GoalFound(stack)
                  ELSE SetTop(stack, next)
      /\ caught' = IF found THEN caught \cup {cur} ELSE caught
      /\ call' = [NoCall EXCEPT
                    !.op = Top.op, !.i = Top.i, !.k = Top.k,
                    !.before = JugsState(graph[cur].jugs, NewId).jugs]
      /\ jugs' = Store(jugs, st.jugs)
      /\ UNCHANGED << goal, graphed, solution_number, solutions,
                      solution, output >>

\* ----------------------------------------------------------- print_solutions
RECURSIVE _get_state_path(_, _, _)
_get_state_path(g, current_state, current_path) ==
  LET path == << current_state >> \o current_path
  IN  IF g[current_state].parent # None
      THEN _get_state_path(g, g[current_state].parent, path)
      ELSE path

\* The entries _traverse_states appends to self.solutions below
\* current_state; _traverse_from is its loop over next_states from entry x.
RECURSIVE _traverse_states(_, _)
RECURSIVE _traverse_from(_, _, _)
_traverse_states(g, current_state) ==
  IF g[current_state].goal_flag
  THEN LET state_list == _get_state_path(g, current_state, << >>)
       IN  << [steps |-> Len(state_list), list |-> state_list] >>
  ELSE _traverse_from(g, current_state, 1)

_traverse_from(g, current_state, x) ==
  IF x > Len(g[current_state].next_states) THEN << >>
  ELSE _traverse_states(g, g[current_state].next_states[x])
         \o _traverse_from(g, current_state, x + 1)

NoSolution == [steps |-> 0, list |-> << >>]

\* the minimum search with "<=" for "<": the last minimum wins
RECURSIVE shortest_last(_, _, _, _)
shortest_last(sols, x, min_steps, sol) ==
  IF x > Len(sols) THEN sol
  ELSE IF sols[x].steps <= min_steps
       THEN shortest_last(sols, x + 1, sols[x].steps, sols[x])
       ELSE shortest_last(sols, x + 1, min_steps, sol)

\* "for s in self.solutions: if s["steps"] < min_steps: ..." from entry x on
RECURSIVE shortest(_, _, _, _)
shortest(sols, x, min_steps, sol) ==
  IF x > Len(sols) THEN sol
  ELSE IF sols[x].steps < min_steps
       THEN shortest(sols, x + 1, sols[x].steps, sols[x])
       ELSE shortest(sols, x + 1, min_steps, sol)

\* ------------------------------------------------------------------ actions
\* main: the jugs read from the terminal, JugsGraph(jugs, goal)
Init ==
  \E inst \in Instances :
    /\ jugs = [i \in 1..Len(inst[1]) |-> Jug(inst[1][i], <<0, i>>)]
    /\ goal = inst[2]
    /\ graph = << JugsState(jugs, START) >>
    /\ graphed = FALSE
    /\ stack = << >>
    /\ cand = NoState
    /\ caught = {}
    /\ solution_number = 0
    /\ solutions = << >>
    /\ solution = NoSolution
    /\ output = ""
    /\ call = NoCall

\* graph_it up to its call _helper(self.start); main calls it once
GraphIt ==
  /\ ~ graphed
  /\ stack = << >>
  /\ graphed' = TRUE
  /\ stack' = << Frame(START, Len(graph[START].jugs)) >>
  /\ UNCHANGED << jugs, goal, graph, cand, caught, solution_number,
                  solutions, solution, output, call >>

Fill ==
  /\ stack # << >>
  /\ Top.op = "fill"
  /\ Candidate(fill_state(graph[Top.state], Top.i), AfterFill(Top))

Empty ==
  /\ stack # << >>
  /\ Top.op = "empty"
  /\ Candidate(empty_state(graph[Top.state], Top.i),
               AfterEmpty(Top, Len(graph[Top.state].jugs)))

Transfer ==
  /\ stack # << >>
  /\ Top.op = "transfer"
  /\ Candidate(transfer_state(graph[Top.state], Top.i, Top.k),
               AfterTransfer(Top, Len(graph[Top.state].jugs)))

\* "for s in current_state.next_states: if s.goal_flag: raise GoalFound()
\*  _helper(s)"
Recurse ==
  /\ stack # << >>
  /\ Top.op = "children"
  /\ Top.s <= Len(graph[Top.state].next_states)
  /\ LET s == graph[Top.state].next_states[Top.s]
     IN  IF graph[s].goal_flag
         THEN /\ stack' = except_GoalFound(stack)
              /\ caught' = caught \cup {Top.state}
         ELSE /\ stack' = Append(SetTop(stack, [Top EXCEPT !.s = @ + 1]),
                                 Frame(s, Len(graph[s].jugs)))
              /\ caught' = caught
  /\ UNCHANGED << jugs, goal, graph, graphed, cand, solution_number,
                  solutions, solution, output, call >>

\* the loop over next_states is done: _helper returns
Return ==
  /\ stack # << >>
  /\ Top.op = "children"
  /\ Top.s > Len(graph[Top.state].next_states)
  /\ stack' = SubSeq(stack, 1, Len(stack) - 1)
  /\ UNCHANGED << jugs, goal, graph, graphed, cand, caught, solution_number,
                  solutions, solution, output, call >>

PrintSolutions ==
  /\ stack = << >>
  /\ IF graphed
     THEN LET sols == _traverse_states(graph, START)
          IN  /\ solutions' = sols
              /\ solution_number' = Len(sols)
              /\ IF Len(sols) = 0
                 THEN /\ output' = "No solution found!"
                      /\ solution' = NoSolution
                 ELSE /\ output' = "Best solution found:"
                      /\ solution' = shortest(sols, 1, MinStepsInit, NoSolution)
     ELSE /\ solutions' = << >>
          /\ solution_number' = 0
          /\ solution' = NoSolution
          /\ output' = "Run graph_it first!"
  /\ UNCHANGED << jugs, goal, graph, graphed, stack, cand, caught, call >>

Next ==
  \/ GraphIt
  \/ Fill
  \/ Empty
  \/ Transfer
  \/ Recurse
  \/ Return
  \/ PrintSolutions

Spec == Init /\ [][Next]_vars

\* main runs graph_it to its end: a step of graph_it that can be taken is
\* taken.
GraphStep == GraphIt \/ Fill \/ Empty \/ Transfer \/ Recurse \/ Return

FairSpec == Spec /\ WF_vars(GraphStep)

\* ------------------------------------------- the classes called directly
\* Jug and JugsState used without a JugsGraph: two Jug objects with any
\* amounts within their capacities, their methods called in any order, and
\* is_same called on two JugsState objects built from any two such lists.
UnitJugs ==
  { [capacity |-> c, amount |-> a] : c \in 1..MaxCap, a \in 0..MaxCap }

\* the lists o of two Jug objects
UnitJugLists(o) ==
  { [i \in 1..2 |-> [Jug(l[i].capacity, <<o, i>>) EXCEPT !.amount = l[i].amount]] :
      l \in { m \in [1..2 -> UnitJugs] :
                \A i \in 1..2 : m[i].amount <= m[i].capacity } }

UnitInit ==
  /\ jugs \in UnitJugLists(0)
  /\ goal = 0
  /\ graph = << >>
  /\ graphed = FALSE
  /\ stack = << >>
  /\ cand = NoState
  /\ caught = {}
  /\ solution_number = 0
  /\ solutions = << >>
  /\ solution = NoSolution
  /\ output = ""
  /\ call = NoCall

UnitFrame ==
  UNCHANGED << goal, graph, graphed, stack, cand, caught, solution_number,
               solutions, solution, output >>

UnitFillToFull ==
  \E i \in 1..Len(jugs) :
    /\ jugs' = [jugs EXCEPT ![i] = fill_to_full(@)]
    /\ call' = [NoCall EXCEPT !.op = "fill", !.i = i, !.before = jugs]
    /\ UnitFrame

UnitEmpty ==
  \E i \in 1..Len(jugs) :
    /\ jugs' = [jugs EXCEPT ![i] = empty(@)]
    /\ call' = [NoCall EXCEPT !.op = "empty", !.i = i, !.before = jugs]
    /\ UnitFrame

\* jugs[i].transfer(jugs[k]) on two distinct objects
UnitTransfer ==
  \E i, k \in 1..Len(jugs) :
    /\ i # k
    /\ LET t == transfer(jugs[i], jugs[k])
       IN  jugs' = [jugs EXCEPT ![i] = t[1], ![k] = t[2]]
    /\ call' = [NoCall EXCEPT !.op = "transfer", !.i = i, !.k = k,
                              !.before = jugs]
    /\ UnitFrame

\* JugsState(jugs).is_same(JugsState(other))
UnitIsSame ==
  \E other \in UnitJugLists(-1) :
    /\ call' = [NoCall EXCEPT
                  !.op = "is_same", !.before = JugsState(jugs, 1).jugs,
                  !.other = JugsState(other, 2).jugs,
                  !.result = is_same(JugsState(jugs, 1), JugsState(other, 2))]
    /\ jugs' = jugs
    /\ UnitFrame

UnitNext ==
  \/ UnitFillToFull
  \/ UnitEmpty
  \/ UnitTransfer
  \/ UnitIsSame

SpecUnit == UnitInit /\ [][UnitNext]_vars


\* =========================================================== properties
\* The puzzle itself, on amount vectors: what one legal move can produce,
\* what is reachable from all-empty, and the fewest moves to the target.
Caps == [i \in 1..Len(jugs) |-> jugs[i].capacity]

Amounts(st) == [i \in 1..Len(st.jugs) |-> st.jugs[i].amount]

Min(a, b) == IF a < b THEN a ELSE b

Moves(caps, v) ==
  LET n == Len(caps)
  IN  { [v EXCEPT ![i] = caps[i]] : i \in 1..n }
      \cup { [v EXCEPT ![i] = 0] : i \in 1..n }
      \cup { [v EXCEPT ![p[1]] = v[p[1]] - Min(v[p[1]], caps[p[2]] - v[p[2]]),
                       ![p[2]] = v[p[2]] + Min(v[p[1]], caps[p[2]] - v[p[2]])] :
             p \in { q \in (1..n) \X (1..n) : q[1] # q[2] } }

Holds(v, target) == \E i \in 1..Len(v) : v[i] = target

AllEmpty(caps) == [i \in 1..Len(caps) |-> 0]

RECURSIVE ReachFrom(_, _, _)
ReachFrom(caps, seen, frontier) ==
  IF frontier = {} THEN seen
  ELSE LET new == (UNION { Moves(caps, v) : v \in frontier }) \ seen
       IN  ReachFrom(caps, seen \cup new, new)

Reachable(caps) == ReachFrom(caps, {AllEmpty(caps)}, {AllEmpty(caps)})

\* fewest moves from all-empty to a vector holding target; -1 when there is none
RECURSIVE MovesFrom(_, _, _, _, _)
MovesFrom(caps, target, seen, frontier, d) ==
  IF \E v \in frontier : Holds(v, target) THEN d
  ELSE IF frontier = {} THEN -1
  ELSE LET new == (UNION { Moves(caps, v) : v \in frontier }) \ seen
       IN  MovesFrom(caps, target, seen \cup new, new, d + 1)

MinMoves(caps, target) ==
  MovesFrom(caps, target, {AllEmpty(caps)}, {AllEmpty(caps)}, 0)

\* some amount vector reachable from all-empty holds target
Solvable(caps, target) == MinMoves(caps, target) >= 0

\* graph_it has returned
Built == graphed /\ stack = << >>

\* print_solutions has run on the built graph
Extracted == Built /\ output \in {"No solution found!", "Best solution found:"}

GoalStates == { n \in 1..Len(graph) : graph[n].goal_flag }

StepsOf == { solutions[x].steps : x \in 1..Len(solutions) }

\* C1 as stated: capacities (3, 5), target 4: a solution exists and the
\* minimum path length reported is 6 states (5 moves).
C1_Stated ==
  (Caps = <<3, 5>> /\ goal = 4 /\ Extracted)
    => (solution_number >= 1 /\ solution.steps = 6)

\* C1 amended: capacities (3, 5), target 4: a solution exists and the
\* minimum path length reported is 7 states (6 moves), which is also the
\* fewest moves the puzzle allows.
C1_MinPath35 ==
  (Caps = <<3, 5>> /\ goal = 4 /\ Extracted)
    => /\ solution_number >= 1
       /\ solution.steps = 7
       /\ \A x \in 1..Len(solutions) : solutions[x].steps >= 7
       /\ MinMoves(Caps, goal) = 6

C1_Witness ==
  Caps = <<3, 5>> /\ goal = 4 /\ Extracted /\ solution_number >= 1

\* C2: capacities (3, 5, 8), target 4: a solution exists and the minimum
\* path length reported is 7 states.
C2_MinPath358 ==
  (Caps = <<3, 5, 8>> /\ goal = 4 /\ Extracted)
    => (solution_number >= 1 /\ solution.steps = 7)

\* C3: one jug of capacity c, target c: the best solution is the all-empty
\* root followed by the state with the jug full, 2 states.
C3_SingleJugFull ==
  (Len(jugs) = 1 /\ goal = Caps[1] /\ Extracted)
    => /\ solution_number >= 1
       /\ solution.steps = 2
       /\ Len(solution.list) = 2
       /\ solution.list[1] = START
       /\ Amounts(graph[START]) = <<0>>
       /\ Amounts(graph[solution.list[2]]) = << Caps[1] >>

C3_Witness ==
  Len(jugs) = 1 /\ goal = Caps[1] /\ Extracted /\ solution.steps = 2

\* C4: when no reachable amount vector holds the target, no candidate is
\* ever marked goal and nothing is raised, the finished graph holds every
\* reachable vector, and extraction reports zero paths.  (Written as
\* "that outcome, or the target is reachable".)
C4_NoSolution ==
  \/ /\ GoalStates = {}
     /\ ~ cand.goal_flag
     /\ caught = {}
     /\ Built => { Amounts(graph[n]) : n \in 1..Len(graph) } = Reachable(Caps)
     /\ Extracted => /\ solution_number = 0
                     /\ solutions = << >>
                     /\ output = "No solution found!"
  \/ Solvable(Caps, goal)

C4_Witness ==
  /\ ~ Solvable(Caps, goal)
  /\ Extracted
  /\ Len(graph) > 2
  /\ output = "No solution found!"

\* C5: target >= 1 and some reachable amount vector holds it: the built
\* graph has an attached state marked goal and extraction reports a path.
C5_SolvableFound ==
  (Built /\ goal >= 1 /\ Solvable(Caps, goal))
    => /\ GoalStates # {}
       /\ Extracted => solution_number >= 1

C5_Witness ==
  /\ Extracted
  /\ goal >= 1
  /\ Solvable(Caps, goal)
  /\ solution.steps >= 4

\* C6: target >= 1, solvable: the number of moves of the best path equals
\* the fewest moves the puzzle allows.
C6_BestIsShortest ==
  (Extracted /\ goal >= 1 /\ Solvable(Caps, goal))
    => solution.steps - 1 = MinMoves(Caps, goal)


C8_AmountInRange ==
  /\ \A n \in 1..Len(graph) : \A i \in 1..Len(graph[n].jugs) :
       /\ 0 <= graph[n].jugs[i].amount
       /\ graph[n].jugs[i].amount <= graph[n].jugs[i].capacity
  /\ \A i \in 1..Len(cand.jugs) :
       /\ 0 <= cand.jugs[i].amount
       /\ cand.jugs[i].amount <= cand.jugs[i].capacity

\* a pour that filled the destination and left a remainder in the source
C8_Witness ==
  \E i, k \in 1..Len(cand.jugs) :
    /\ i # k
    /\ 0 < cand.jugs[i].amount
    /\ cand.jugs[i].amount < cand.jugs[i].capacity
    /\ cand.jugs[k].amount = cand.jugs[k].capacity
    /\ cand.from # None
    /\ graph[cand.from].jugs[k].amount < cand.jugs[k].amount
    /\ graph[cand.from].jugs[i].amount > cand.jugs[i].amount

\* C9: every extracted path starts at the all-empty root, ends at a state
\* marked goal that holds the target, follows parent links without
\* repeating a state, makes one legal move per link, and its step count is
\* its number of states.
C9_PathsWellFormed ==
  Extracted =>
    \A x \in 1..Len(solutions) :
      LET p == solutions[x].list
          last == p[Len(p)]
      IN  /\ solutions[x].steps = Len(p)
          /\ Len(p) >= 1
          /\ p[1] = START
          /\ Amounts(graph[START]) = AllEmpty(Caps)
          /\ graph[last].goal_flag
          /\ Holds(Amounts(graph[last]), goal)
          /\ \A y, z \in 1..Len(p) : y # z => p[y] # p[z]
          /\ \A y \in 1..(Len(p) - 1) :
               /\ graph[p[y + 1]].parent = p[y]
               /\ Amounts(graph[p[y + 1]]) # Amounts(graph[p[y]])
               /\ Amounts(graph[p[y + 1]]) \in Moves(Caps, Amounts(graph[p[y]]))

C9_Witness ==
  /\ Extracted
  /\ \E x \in 1..Len(solutions) : solutions[x].steps >= 5

\* C10: the path reported as best is one of the collected paths, none is
\* shorter, and every path collected before it is strictly longer.
C10_FirstMinimum ==
  (Extracted /\ solution_number >= 1)
    => \E x \in 1..Len(solutions) :
         /\ solution = solutions[x]
         /\ \A y \in 1..Len(solutions) : solutions[y].steps >= solutions[x].steps
         /\ \A y \in 1..(x - 1) : solutions[y].steps > solutions[x].steps

\* two collected paths share the minimum length
C10_Witness ==
  /\ Extracted
  /\ \E x, y \in 1..Len(solutions) :
       /\ x < y
       /\ solutions[x].steps = solution.steps
       /\ solutions[y].steps = solution.steps
       /\ solution = solutions[x]


\* C12: transfer between two distinct jugs moves exactly
\* t = min(source amount, destination capacity - destination amount):
\* the destination grows by t, the source shrinks by t, the sum of the two
\* and both capacities stay, and pouring from an empty jug or into a full
\* one changes nothing.
C12_TransferMovesMin ==
  call.op = "transfer" =>
    LET b == call.before
        i == call.i
        k == call.k
        t == Min(b[i].amount, b[k].capacity - b[k].amount)
    IN  /\ jugs[k].amount = b[k].amount + t
        /\ jugs[i].amount = b[i].amount - t
        /\ jugs[i].amount + jugs[k].amount = b[i].amount + b[k].amount
        /\ jugs[i].capacity = b[i].capacity
        /\ jugs[k].capacity = b[k].capacity
        /\ (b[i].amount = 0 \/ b[k].amount = b[k].capacity) => jugs = b

\* a pour that filled the destination and left a remainder in the source
C12_Witness ==
  /\ call.op = "transfer"
  /\ jugs[call.k].amount = jugs[call.k].capacity
  /\ call.before[call.k].amount < jugs[call.k].amount
  /\ 0 < jugs[call.i].amount
  /\ jugs[call.i].amount < call.before[call.i].amount


\* the states from the root down to n, over parent links
PathTo(n) == _get_state_path(graph, n, << >>)

Range(f) == { f[x] : x \in DOMAIN f }

\* C13: no two distinct states of the graph, root included, have the same
\* amount vector (there are as many amount vectors as states); in particular a candidate equal to a state anywhere in the
\* graph has not been attached.
C13_NoDuplicates ==
  /\ Cardinality({ Amounts(graph[n]) : n \in 1..Len(graph) }) = Len(graph)
  /\ (cand.from # None /\ \E n \in 1..(Len(graph) - 1) :
                            Amounts(graph[n]) = Amounts(cand))
       => ~ cand.attached

\* a candidate discarded for a state in another branch: neither an ancestor
\* of the expanded state, nor that state, nor one of its children
C13_Witness ==
  /\ cand.from # None
  /\ ~ cand.attached
  /\ \E n \in 1..Len(graph) :
       /\ Amounts(graph[n]) = Amounts(cand)
       /\ n \notin Range(PathTo(cand.from))
       /\ graph[n].parent # cand.from
       /\ Len(PathTo(n)) >= 3

\* the number of parent links from n up to a state without parent, -1 when
\* more than fuel links are followed
RECURSIVE Ascent(_, _)
Ascent(n, fuel) ==
  IF graph[n].parent = None THEN 0
  ELSE IF fuel = 0 \/ graph[n].parent \notin 1..Len(graph) THEN -1
  ELSE LET a == Ascent(graph[n].parent, fuel - 1)
       IN  IF a < 0 THEN -1 ELSE a + 1

Occurrences(seq, v) == Cardinality({ x \in 1..Len(seq) : seq[x] = v })

\* C14: the root has no parent; every other state of the graph has one
\* parent, is listed exactly once in that parent's children and in no other
\* state's (whatever a child list holds has that state as its parent), and
\* its parent links lead to the root.
C14_Tree ==
  /\ graph[START].parent = None
  /\ \A m \in 1..Len(graph) : \A x \in 1..Len(graph[m].next_states) :
       LET c == graph[m].next_states[x]
       IN  c \in 2..Len(graph) /\ graph[c].parent = m
  /\ \A n \in 2..Len(graph) :
       /\ graph[n].parent \in 1..Len(graph)
       /\ Occurrences(graph[graph[n].parent].next_states, n) = 1
       /\ Ascent(n, Len(graph)) >= 1
       /\ PathTo(n)[1] = START

C14_Witness ==
  /\ \E n \in 1..Len(graph) : Ascent(n, Len(graph)) >= 3
  /\ \E n \in 1..Len(graph) : Len(graph[n].next_states) >= 2


\* C15: is_same on two states of equal length returns true only if at
\* every position the capacities match and the amounts match (so two states
\* with the jugs in swapped, unaligned positions are not the same); a state
\* is the same as itself, and is_same gives the same answer both ways round.
C15_SameOnlyIfAligned ==
  call.op = "is_same" =>
    LET a == [jugs |-> call.before]
        b == [jugs |-> call.other]
    IN  /\ call.result =>
             \A i \in 1..Len(a.jugs) :
               /\ a.jugs[i].capacity = b.jugs[i].capacity
               /\ a.jugs[i].amount = b.jugs[i].amount
        /\ is_same(a, a)
        /\ is_same(b, a) = call.result


\* The place of a move in the order "for i ascending: fill i, empty i, pour
\* i into k for k ascending, k # i" among the n * (n + 1) moves of n jugs.
MoveIndex(op, i, k, n) ==
  (i - 1) * (n + 1)
    + (IF op = "fill" THEN 1
       ELSE IF op = "empty" THEN 2
       ELSE 2 + (IF k < i THEN k ELSE k - 1))

AllMoves(n) ==
  { <<"fill", i, 0>> : i \in 1..n } \cup { <<"empty", i, 0>> : i \in 1..n }
    \cup { <<"transfer", q[1], q[2]>> : q \in { r \in (1..n) \X (1..n) : r[1] # r[2] } }

\* the amount vector move m makes of v
ApplyMove(caps, v, m) ==
  IF m[1] = "fill" THEN [v EXCEPT ![m[2]] = caps[m[2]]]
  ELSE IF m[1] = "empty" THEN [v EXCEPT ![m[2]] = 0]
  ELSE LET t == Min(v[m[2]], caps[m[3]] - v[m[3]])
       IN  [v EXCEPT ![m[2]] = v[m[2]] - t, ![m[3]] = v[m[3]] + t]

\* the place of the first move that makes w of v (0 when none does)
FirstMove(caps, v, w) ==
  LET n == Len(caps)
      is == { MoveIndex(m[1], m[2], m[3], n) :
                m \in { x \in AllMoves(n) : ApplyMove(caps, v, x) = w } }
  IN  IF is = {} THEN 0 ELSE CHOOSE a \in is : \A b \in is : a <= b

InCandidates(f) == f.op \in {"fill", "empty", "transfer"}

FrameIndex(f) == MoveIndex(f.op, f.i, f.k, Len(jugs))

OnStack(n) == \E f \in 1..Len(stack) : stack[f].state = n

\* C16, the states: the call on top of the stack is at its first move or
\* at the move right after the one that made the last candidate; the
\* children of every state are listed in the order of the moves that make
\* them; only the innermost call is among its candidates, every other call
\* is in its loop over the children, at the child it called; no child of a
\* state whose candidates are not all processed has been expanded.
C16_OrderState ==
  /\ (stack # << >> /\ InCandidates(Top)) =>
       /\ Top.i \in 1..Len(jugs)
       /\ Top.op = "transfer" => (Top.k \in 1..Len(jugs) /\ Top.k # Top.i)
       /\ FrameIndex(Top) # 1 =>
            /\ cand.from = Top.state
            /\ ~ cand.goal_flag
            /\ MoveIndex(call.op, call.i, call.k, Len(jugs)) + 1 = FrameIndex(Top)
       /\ \A x \in 1..Len(graph[Top.state].next_states) :
            LET c == graph[Top.state].next_states[x]
            IN  graph[c].next_states = << >> /\ ~ OnStack(c)
  /\ \A f \in 1..(Len(stack) - 1) :
       /\ stack[f].op = "children"
       /\ stack[f].s - 1 \in 1..Len(graph[stack[f].state].next_states)
       /\ stack[f + 1].state = graph[stack[f].state].next_states[stack[f].s - 1]
  /\ \A n \in 1..Len(graph) : \A x \in 1..Len(graph[n].next_states) :
       LET place(y) == FirstMove(Caps, Amounts(graph[n]),
                                 Amounts(graph[graph[n].next_states[y]]))
       IN  /\ place(x) >= 1
           /\ x > 1 => place(x - 1) < place(x)

\* C16, the steps: a step of a call among its candidates makes the
\* candidate of exactly the move the call is at, from the state the call
\* expands, appends it to that state's children when it is attached, and
\* the call leaves its candidates for its children only after the last move.
C16_OrderStep ==
  (stack # << >> /\ InCandidates(Top)) =>
    /\ cand'.from = Top.state
    /\ call'.op = Top.op /\ call'.i = Top.i /\ call'.k = Top.k
    /\ Amounts(cand') = ApplyMove(Caps, Amounts(graph[Top.state]),
                                  << Top.op, Top.i, Top.k >>)
    /\ IF cand'.attached
       THEN /\ Len(graph') = Len(graph) + 1
            /\ graph'[Top.state].next_states
                 = Append(graph[Top.state].next_states, Len(graph'))
            /\ Amounts(graph'[Len(graph')]) = Amounts(cand')
       ELSE Len(graph') = Len(graph)
    /\ IF cand'.goal_flag
       THEN Len(stack') = Len(stack) - 1
       ELSE /\ Len(stack') = Len(stack)
            /\ stack'[Len(stack')].state = Top.state
            /\ IF FrameIndex(Top) = Len(jugs) * (Len(jugs) + 1)
               THEN stack'[Len(stack')].op = "children"
               ELSE /\ InCandidates(stack'[Len(stack')])
                    /\ FrameIndex(stack'[Len(stack')]) = FrameIndex(Top) + 1

\* C16: while one state is expanded its candidates are made, checked and
\* attached one at a time in the order fill i, empty i, pour i into k
\* (i ascending, k ascending, k # i), its children are listed in that order,
\* and none of its children is expanded before its candidates are done.
C16_FixedOrder == [] C16_OrderState /\ [][C16_OrderStep]_vars

\* a state with three children, reached with the call back among the
\* candidates of a later state
C16_Witness ==
  /\ stack # << >>
  /\ InCandidates(Top)
  /\ Top.op = "transfer"
  /\ Len(stack) >= 3
  /\ \E n \in 1..Len(graph) : Len(graph[n].next_states) >= 3


\* the number of amount vectors within the capacities: the product of
\* capacity + 1 over the jugs from position x on
RECURSIVE VectorCount(_, _)
VectorCount(caps, x) ==
  IF x > Len(caps) THEN 1 ELSE (caps[x] + 1) * VectorCount(caps, x + 1)

\* C17: graph_it terminates, by exhaustion or on a goal, and then stays
\* built (graphed is true and no call of _helper is active); the graph never
\* holds more states than there are amount vectors within the capacities.
C17_Terminates ==
  /\ <>[] Built
  /\ [] (Len(graph) <= VectorCount(Caps, 1))

\* graph_it has returned after exhausting the reachable states
C17_Witness ==
  /\ Built
  /\ caught = {}
  /\ Len(graph) >= 4
  /\ \A n \in 1..Len(graph) : ~ graph[n].goal_flag


\* C19: for a target of at least 1, a state of the graph is marked goal
\* exactly when one of its jugs holds the target; a state marked goal has no
\* children and no call of _helper expands it; the root is not marked.
C19_GoalFlag ==
  goal >= 1 =>
    /\ ~ graph[START].goal_flag
    /\ \A n \in 1..Len(graph) :
         /\ graph[n].goal_flag <=> Holds(Amounts(graph[n]), goal)
         /\ graph[n].goal_flag => (graph[n].next_states = << >> /\ ~ OnStack(n))

\* the search is over with two states marked goal, one of them holding the
\* target in a jug other than the first
C19_Witness ==
  /\ goal >= 1
  /\ Built
  /\ Cardinality(GoalStates) >= 2
  /\ \E n \in GoalStates : graph[n].jugs[1].amount # goal


\* C18: a step that makes a candidate (a fill, an empty or a pour from jug i
\* into jug k, on the jugs of a new state) leaves the jugs of the state being
\* expanded, of every other state of the graph and of the caller's list as
\* they were; the candidate has the capacities of the state being expanded,
\* and its amounts differ from that state's at most in jug i (fill, empty)
\* or in jugs i and k (pour).
C18_FrameStep ==
  (stack # << >> /\ InCandidates(Top)) =>
    LET f == Top
        src == graph[f.state]
    IN  /\ jugs' = jugs
        /\ \A m \in 1..Len(graph) : graph'[m].jugs = graph[m].jugs
        /\ Len(cand'.jugs) = Len(src.jugs)
        /\ \A x \in 1..Len(src.jugs) :
             /\ cand'.jugs[x].capacity = src.jugs[x].capacity
             /\ (x # f.i /\ ~ (f.op = "transfer" /\ x = f.k)) =>
                  cand'.jugs[x].amount = src.jugs[x].amount

C18_Frame == [][C18_FrameStep]_vars

\* a pour has just made an attached candidate that differs from the state it
\* was made from in both jugs, and that state still holds what it held
\* before the pour
C18_Witness ==
  /\ call.op = "transfer"
  /\ cand.attached
  /\ cand.jugs[call.i].amount # call.before[call.i].amount
  /\ cand.jugs[call.k].amount # call.before[call.k].amount
  /\ Amounts(graph[cand.from]) = [x \in 1..Len(jugs) |-> call.before[x].amount]

=============================================================================
